---- MODULE Spec2Model ----
(***************************************************************************)
(* Model of the decision-tree troubleshooter: the template substitution    *)
(* (perform_subsitutions), the invocation parser (parse_node_invocation),  *)
(* Node / Scenario construction and lookup, the interactive traversal      *)
(* (Troubleshooter.get_help, Node.run, ask_choice) and the request handler *)
(* (get_secnario_node).                                                    *)
(*                                                                         *)
(* A Python str is a sequence of one-character strings; a Python dict with *)
(* str keys is a function whose domain is a set of such sequences; a dict  *)
(* whose insertion order is observed is a sequence of records.             *)
(***************************************************************************)
EXTENDS Integers, Sequences, FiniteSets, TLC

VARIABLES
    fn_pc,          \* pure-function harness: "input" | "done"
    fn_text,        \* the text / invocation handed to the function
    fn_vars,        \* the variable mapping handed to perform_subsitutions
    fn_out,         \* what the function returned
    prog,           \* which program runs: "cli" (main) | "api" (request handler)
    config,         \* the scenario file: sections in declaration order
    scenario,       \* Scenario(...) as built, or the load failure
    pc,             \* main: "init" | "loaded" | "active" | "asking" | "terminated" | "failed";
                    \* handler: "init" | "answered"
    node_id,        \* get_help local node_id
    variables,      \* get_help local variables
    result,         \* get_help return value
    error,          \* the exception that ended the program, "none" otherwise
    typed,          \* last line read by input()
    choice,         \* last value returned by ask_choice
    invocation,     \* substituted invocation of the choice taken last
    prev_variables, \* variables before the choice taken last
    lookup,         \* last Scenario.get_node call: argument and outcome
    root_id,        \* last Scenario.get_root_node_id outcome
    request,        \* last request body handled
    response        \* what the handler answered

vars == <<fn_pc, fn_text, fn_vars, fn_out, prog, config, scenario, pc, node_id,
          variables, result, error, typed, choice, invocation, prev_variables,
          lookup, root_id, request, response>>

fn_state == <<fn_pc, fn_text, fn_vars, fn_out>>
prog_state == <<prog, config, scenario, pc, node_id, variables, result, error,
                typed, choice, invocation, prev_variables, lookup,
                root_id, request, response>>

----------------------------------------------------------------------------
(* Bounds *)

MaxTextLen == 5         \* longest text handed to perform_subsitutions
MaxInvocationLen == 6   \* longest text handed to parse_node_invocation
MaxChoices == 2         \* most if_ fields declared by the first section

----------------------------------------------------------------------------
(* Characters and strings *)

\* Python None where a str is expected: no str is this sequence
None == <<"None">>

UpperChars == {"Y", "E", "X", "I", "T"}
WordChars == {"a", "b", "d", "e", "f", "g", "i", "k", "l", "m", "n", "o", "r",
              "s", "t", "u", "v", "x", "y", "_", "0", "1", "2", "5"} \cup UpperChars
Digits == {"0", "1", "2", "5"}
Whitespace == {" ", "\t", "\n"}

\* \w
IsWord(c) == c \in WordChars

\* \s
IsSpace(c) == c \in Whitespace

\* str.lower on one character
LowerChar(c) ==
    CASE c = "Y" -> "y"
      [] c = "E" -> "e"
      [] c = "X" -> "x"
      [] c = "I" -> "i"
      [] c = "T" -> "t"
      [] OTHER -> c

\* str.lower
Lower(s) == [i \in 1..Len(s) |-> LowerChar(s[i])]

\* str.strip
Strip(s) ==
    LET keep == {i \in 1..Len(s) : ~IsSpace(s[i])}
    IN  IF keep = {} THEN <<>>
        ELSE LET lo == CHOOSE i \in keep : \A j \in keep : i <= j
                 hi == CHOOSE i \in keep : \A j \in keep : j <= i
             IN  SubSeq(s, lo, hi)

\* end of the longest run of word characters that starts at position i
\* (i - 1 when text[i] is no word character)
RECURSIVE WordRunEnd(_, _)
WordRunEnd(text, i) ==
    IF i <= Len(text) /\ IsWord(text[i]) THEN WordRunEnd(text, i + 1) ELSE i - 1

\* the empty dict
EmptyMap == [k \in {} |-> <<>>]

----------------------------------------------------------------------------
(* perform_subsitutions *)

\* one attempt of the pattern \$\{(?P<name>\w*):?(?P<default>.*?)\} at position i
MatchPlaceholder(text, i) ==
    IF ~(i + 1 <= Len(text) /\ text[i] = "$" /\ text[i + 1] = "{")
    THEN [matched |-> FALSE]
    ELSE LET nameEnd == WordRunEnd(text, i + 2)
             afterName == nameEnd + 1
             defStart == IF afterName <= Len(text) /\ text[afterName] = ":"
                         THEN afterName + 1 ELSE afterName
             closes == {j \in defStart..Len(text) :
                          /\ text[j] = "}"
                          /\ \A p \in defStart..(j - 1) : text[p] # "\n"}
         IN  IF closes = {} THEN [matched |-> FALSE]
             ELSE LET close == CHOOSE j \in closes : \A q \in closes : j <= q
                  IN  [matched |-> TRUE,
                       name |-> SubSeq(text, i + 2, nameEnd),
                       default |-> SubSeq(text, defStart, close - 1),
                       end |-> close]

evaluate_match(m, vs) ==
    IF m.name \notin DOMAIN vs THEN m.default ELSE vs[m.name]

RECURSIVE SubFrom(_, _, _)
SubFrom(text, vs, i) ==
    IF i > Len(text) THEN <<>>
    ELSE LET m == MatchPlaceholder(text, i)
         IN  IF m.matched
             THEN evaluate_match(m, vs) \o SubFrom(text, vs, m.end + 1)
             ELSE <<text[i]>> \o SubFrom(text, vs, i + 1)

perform_subsitutions(text, vs) == SubFrom(text, vs, 1)

----------------------------------------------------------------------------
(* parse_node_invocation *)

\* re.split(r"\s+", s, maxsplit=1) on a stripped s
SplitFirstSpace(s) ==
    LET sp == {i \in 1..Len(s) : IsSpace(s[i])}
    IN  IF sp = {} THEN <<s>>
        ELSE LET first == CHOOSE i \in sp : \A j \in sp : i <= j
                 rest == {i \in first..Len(s) : ~IsSpace(s[i])}
                 from == CHOOSE i \in rest : \A j \in rest : i <= j
             IN  <<SubSeq(s, 1, first - 1), SubSeq(s, from, Len(s))>>

\* end of the longest run of characters other than ( and ) that starts at i
RECURSIVE GroupRunEnd(_, _)
GroupRunEnd(text, i) ==
    IF i <= Len(text) /\ text[i] \notin {"(", ")"}
    THEN GroupRunEnd(text, i + 1) ELSE i - 1

\* re.finditer(r"\((?P<variable>[^()]+)\)", text): the captured groups, in order
RECURSIVE GroupsFrom(_, _)
GroupsFrom(text, i) ==
    IF i > Len(text) THEN <<>>
    ELSE IF text[i] = "("
         THEN LET runEnd == GroupRunEnd(text, i + 1)
              IN  IF runEnd >= i + 1 /\ runEnd + 1 <= Len(text) /\ text[runEnd + 1] = ")"
                  THEN <<SubSeq(text, i + 1, runEnd)>> \o GroupsFrom(text, runEnd + 2)
                  ELSE GroupsFrom(text, i + 1)
         ELSE GroupsFrom(text, i + 1)

Groups(text) == GroupsFrom(text, 1)

Colons(s) == {i \in 1..Len(s) : s[i] = ":"}

\* name, value = group.split(":") succeeds exactly when split gives two pieces
Unpacks(group) == Cardinality(Colons(group)) = 1

SplitName(group) ==
    LET c == CHOOSE i \in Colons(group) : TRUE IN SubSeq(group, 1, c - 1)

SplitValue(group) ==
    LET c == CHOOSE i \in Colons(group) : TRUE IN SubSeq(group, c + 1, Len(group))

\* the dict after variables[name] = value for every group, in order
BuildVariables(groups) ==
    LET names == {SplitName(groups[i]) : i \in 1..Len(groups)}
    IN  [n \in names |->
            LET idx == {i \in 1..Len(groups) : SplitName(groups[i]) = n}
                last == CHOOSE i \in idx : \A j \in idx : j <= i
            IN  SplitValue(groups[last])]

parse_node_invocation(inv) ==
    LET parts == SplitFirstSpace(Strip(inv))
        groups == IF Len(parts) = 2 THEN Groups(parts[2]) ELSE <<>>
    IN  IF \E i \in 1..Len(groups) : ~Unpacks(groups[i])
        THEN [err |-> "ValueError: values to unpack", node_id |-> parts[1], variables |-> EmptyMap]
        ELSE [err |-> "none", node_id |-> parts[1], variables |-> BuildVariables(groups)]

----------------------------------------------------------------------------
(* Node and Scenario *)

s_text == <<"t", "e", "x", "t">>
s_root == <<"r", "o", "o", "t">>
s_exit == <<"e", "x", "i", "t">>
DEFAULTSECT == <<"D", "E", "F", "A", "U", "L", "T">>

\* ConfigParser() keeps option names through optionxform, which is str.lower
optionxform(name) == Lower(name)

HasSetting(settings, name) ==
    \E i \in 1..Len(settings) : optionxform(settings[i].name) = name

\* settings.get(name); asked only when HasSetting
GetSetting(settings, name) ==
    LET i == CHOOSE j \in 1..Len(settings) : optionxform(settings[j].name) = name
    IN  settings[i].value

\* the settings that reach Node.__init__ as **kwargs: all but text and root
Kwargs(settings) ==
    SelectSeq([i \in 1..Len(settings) |->
                  [name |-> optionxform(settings[i].name), value |-> settings[i].value]],
              LAMBDA f : f.name \notin {s_text, s_root})

\* re.match(r"if_(?P<choice>\w+)", name, re.I)
branch_match(name) ==
    /\ Len(name) >= 4
    /\ Lower(SubSeq(name, 1, 3)) = <<"i", "f", "_">>
    /\ IsWord(name[4])

\* the group "choice" of a successful branch_match
branch_choice(name) == SubSeq(name, 4, WordRunEnd(name, 4))

\* dict[key] = value on a dict kept as a sequence in insertion order
Put(dict, key, value) ==
    IF \E i \in 1..Len(dict) : dict[i].label = key
    THEN [i \in 1..Len(dict) |->
            IF dict[i].label = key THEN [label |-> key, invocation |-> value] ELSE dict[i]]
    ELSE Append(dict, [label |-> key, invocation |-> value])

\* bool(root) of a str: the empty str alone is false
Truthy(str) == Len(str) > 0

\* self.root = False if root is None else bool(root)
NodeRoot(settings) ==
    IF ~HasSetting(settings, s_root) THEN FALSE
    ELSE Truthy(GetSetting(settings, s_root))

\* the loop of Node.__init__ over kwargs, from position i with the dict so far
RECURSIVE NodeChoices(_, _, _)
NodeChoices(kwargs, i, dict) ==
    IF i > Len(kwargs) THEN [err |-> "none", choices |-> dict]
    ELSE IF ~branch_match(kwargs[i].name)
         THEN NodeChoices(kwargs, i + 1, dict)
         ELSE IF branch_choice(kwargs[i].name) = <<>>
              THEN [err |-> "ValueError: A choice text cannot be empty", choices |-> <<>>]
              ELSE NodeChoices(kwargs, i + 1,
                               Put(dict, branch_choice(kwargs[i].name), kwargs[i].value))

\* Node(node_id, **settings)
NodeInit(id, settings) ==
    LET built == NodeChoices(Kwargs(settings), 1, <<>>)
    IN  [err |-> built.err,
         node |-> [node_id |-> id,
                   text |-> GetSetting(settings, s_text),
                   root |-> NodeRoot(settings),
                   choice_to_node_invocation |-> built.choices]]

\* the loop of Scenario.__init__ over config_parser.items()
RECURSIVE ScenarioNodes(_, _, _)
ScenarioNodes(cfg, i, nodes) ==
    IF i > Len(cfg) THEN [err |-> "none", nodes |-> nodes]
    ELSE IF cfg[i].id = DEFAULTSECT THEN ScenarioNodes(cfg, i + 1, nodes)
    ELSE IF ~HasSetting(cfg[i].settings, s_text)
         THEN [err |-> "ValueError: Each node must contain a text setting", nodes |-> <<>>]
    ELSE LET n == NodeInit(cfg[i].id, cfg[i].settings)
         IN  IF n.err # "none" THEN [err |-> n.err, nodes |-> <<>>]
             ELSE ScenarioNodes(cfg, i + 1, Append(nodes, n.node))

\* Scenario(config_file_obj): node_id_to_node in insertion order, or the failure
ScenarioInit(cfg) == ScenarioNodes(cfg, 1, <<>>)

Unloaded == [err |-> "unloaded", nodes |-> <<>>]

NoNode == [node_id |-> None, text |-> <<>>, root |-> FALSE,
           choice_to_node_invocation |-> <<>>]

\* re.match(r"\w+", node_id, re.I)
id_match(id) == Len(id) >= 1 /\ IsWord(id[1])

\* Scenario.get_node
get_node(sc, id) ==
    IF id = None
    THEN [arg |-> id, err |-> "TypeError: expected string or bytes-like object",
          found |-> FALSE, node |-> NoNode]
    ELSE IF ~id_match(id)
    THEN [arg |-> id, err |-> "ValueError: Invalid node id", found |-> FALSE, node |-> NoNode]
    ELSE IF \E i \in 1..Len(sc.nodes) : sc.nodes[i].node_id = id
    THEN [arg |-> id, err |-> "none", found |-> TRUE,
          node |-> sc.nodes[CHOOSE i \in 1..Len(sc.nodes) : sc.nodes[i].node_id = id]]
    ELSE [arg |-> id, err |-> "none", found |-> FALSE, node |-> NoNode]

NoLookup == [arg |-> None, err |-> "nocall", found |-> FALSE, node |-> NoNode]

\* Scenario.get_root_node_id
get_root_node_id(sc) ==
    LET roots == {i \in 1..Len(sc.nodes) : sc.nodes[i].root = TRUE}
    IN  IF roots = {} THEN None
        ELSE sc.nodes[CHOOSE i \in roots : \A j \in roots : i <= j].node_id

----------------------------------------------------------------------------
(* ask_choice and Node.run *)

IsInt(str) ==
    LET body == IF Len(str) >= 1 /\ str[1] \in {"+", "-"} THEN Tail(str) ELSE str
    IN  Len(body) >= 1 /\ \A i \in 1..Len(body) : body[i] \in Digits

DigitValue(c) ==
    CASE c = "0" -> 0 [] c = "1" -> 1 [] c = "2" -> 2 [] c = "5" -> 5

RECURSIVE Magnitude(_)
Magnitude(digits) ==
    IF digits = <<>> THEN 0
    ELSE 10 * Magnitude(SubSeq(digits, 1, Len(digits) - 1)) + DigitValue(digits[Len(digits)])

\* int(str), asked only when IsInt
IntOf(str) ==
    IF str[1] = "-" THEN 0 - Magnitude(Tail(str))
    ELSE IF str[1] = "+" THEN Magnitude(Tail(str))
    ELSE Magnitude(str)

\* one round of the loop of ask_choice with the line `line` read by input():
\* returned says whether the loop ends, value is what it returns
ask_choice(choices, line) ==
    LET lowered_choices == {Lower(Strip(choices[i])) : i \in 1..Len(choices)}
        answer == Lower(Strip(line))
    IN  IF choices = <<>> THEN [returned |-> TRUE, value |-> None]
        ELSE IF answer \in lowered_choices THEN [returned |-> TRUE, value |-> answer]
        ELSE IF IsInt(answer) /\ 0 <= IntOf(answer) /\ IntOf(answer) < Len(choices)
        THEN [returned |-> TRUE, value |-> choices[IntOf(answer) + 1]]
        ELSE [returned |-> FALSE, value |-> None]

\* choices as Node.run lists them
RunChoices(node) ==
    Append([i \in 1..Len(node.choice_to_node_invocation) |->
               node.choice_to_node_invocation[i].label], s_exit)

HasChoice(node, label) ==
    \E i \in 1..Len(node.choice_to_node_invocation) :
        node.choice_to_node_invocation[i].label = label

\* self.choice_to_node_invocation[choice], asked only when HasChoice
InvocationOf(node, label) ==
    LET d == node.choice_to_node_invocation
    IN  d[CHOOSE i \in 1..Len(d) : d[i].label = label].invocation

\* as run, with "exit" looked up like a declared choice
runExitLookedUp(node, vs, picked) ==
    IF picked = None
    THEN [err |-> "none", next |-> FALSE, invocation |-> None,
          node_id |-> None, variables |-> EmptyMap]
    ELSE IF ~HasChoice(node, picked)
    THEN [err |-> "KeyError", next |-> FALSE, invocation |-> None,
          node_id |-> None, variables |-> EmptyMap]
    ELSE LET inv == perform_subsitutions(InvocationOf(node, picked), vs)
             parsed == parse_node_invocation(inv)
         IN  [err |-> parsed.err, next |-> parsed.err = "none", invocation |-> inv,
              node_id |-> parsed.node_id, variables |-> parsed.variables]

\* Node.run once ask_choice returned `picked`: what run returns or raises
run(node, vs, picked) ==
    IF picked = None \/ picked = s_exit
    THEN [err |-> "none", next |-> FALSE, invocation |-> None,
          node_id |-> None, variables |-> EmptyMap]
    ELSE IF ~HasChoice(node, picked)
    THEN [err |-> "KeyError", next |-> FALSE, invocation |-> None,
          node_id |-> None, variables |-> EmptyMap]
    ELSE LET inv == perform_subsitutions(InvocationOf(node, picked), vs)
             parsed == parse_node_invocation(inv)
         IN  [err |-> parsed.err, next |-> parsed.err = "none", invocation |-> inv,
              node_id |-> parsed.node_id, variables |-> parsed.variables]

\* as NextVariables, with the bindings of the step before kept
NextVariablesAccumulated(current, next) ==
    [k \in DOMAIN current \cup DOMAIN next.variables |->
        IF k \in DOMAIN next.variables THEN next.variables[k] ELSE current[k]]

\* node_id, variables = next   (the variables of the next Active state)
NextVariables(current, next) == next.variables

----------------------------------------------------------------------------
(* get_secnario_node *)

NoRequest == [file |-> "none", node_id |-> None, variables |-> EmptyMap]

NoResponse == [status |-> 0, err |-> "none", node_id |-> None, prompt |-> <<>>,
               choices |-> <<>>]

Failure(status, err) ==
    [status |-> status, err |-> err, node_id |-> None, prompt |-> <<>>, choices |-> <<>>]

\* as ChoiceRecord, with the invocation template parsed as declared
ChoiceRecordNoSubstitution(entry, vs) ==
    LET parsed == parse_node_invocation(entry.invocation)
    IN  [err |-> parsed.err,
         text |-> perform_subsitutions(entry.label, vs),
         next_node_id |-> parsed.node_id,
         next_variables |-> parsed.variables]

\* the body of the loop over node.choice_to_node_invocation.items()
ChoiceRecord(entry, vs) ==
    LET parsed == parse_node_invocation(perform_subsitutions(entry.invocation, vs))
    IN  [err |-> parsed.err,
         text |-> perform_subsitutions(entry.label, vs),
         next_node_id |-> parsed.node_id,
         next_variables |-> parsed.variables]

\* result["choices"] after the loop, or the exception that left it
HandlerChoices(node, vs) ==
    LET d == node.choice_to_node_invocation
        recs == [i \in 1..Len(d) |-> ChoiceRecord(d[i], vs)]
        bad == {i \in 1..Len(d) : recs[i].err # "none"}
    IN  IF bad # {}
        THEN [err |-> recs[CHOOSE i \in bad : \A j \in bad : i <= j].err, choices |-> <<>>]
        ELSE [err |-> "none",
              choices |-> [i \in 1..Len(d) |->
                             [text |-> recs[i].text,
                              next_node_id |-> recs[i].next_node_id,
                              next_variables |-> recs[i].next_variables]]]

\* the handler from the node lookup on: what it answers
HandlerAnswer(found, vs) ==
    IF found.err # "none" THEN Failure(500, found.err)
    ELSE IF ~found.found THEN Failure(404, "No such node")
    ELSE LET built == HandlerChoices(found.node, vs)
         IN  IF built.err # "none" THEN Failure(500, built.err)
             ELSE [status |-> 200, err |-> "none",
                   node_id |-> found.node.node_id,
                   prompt |-> perform_subsitutions(found.node.text, vs),
                   choices |-> built.choices]

----------------------------------------------------------------------------
(* Scenario files and inputs *)

Field(name, value) == [name |-> name, value |-> value]

s_true == <<"t", "r", "u", "e">>
s_false == <<"f", "a", "l", "s", "e">>

\* if_ fields the first section may declare
ChoicePool ==
    { Field(<<"i", "f", "_", "Y">>, <<"e", " ", "(", "k", ":", "$", "{", "v", "}", ")">>),
      Field(<<"i", "f", "_", "n">>, <<"s", " ", "(", "v", ":", "5", ")">>),
      Field(<<"i", "f", "_", "e", "x", "i", "t">>, <<"e">>),
      Field(<<"i", "f", "_", "1">>, <<"g">>),
      Field(<<"i", "f", "_", "m">>, <<"e", " ", "(", "k", ")">>),
      Field(<<"i", "f", "_", "b">>, <<"!">>),
      Field(<<"i", "f", "_">>, <<"e">>) }

ChoiceFields ==
    {q \in UNION {[1..m -> ChoicePool] : m \in 0..MaxChoices} :
        \A i, j \in 1..Len(q) : i # j => q[i] # q[j]}

RootFields == {<<>>, <<Field(s_root, s_true)>>, <<Field(s_root, s_false)>>}

FirstSections ==
    {[id |-> <<"s">>,
      settings |-> <<Field(s_text, <<"q", " ", "$", "{", "v", ":", "1", "}">>)>> \o r \o c] :
        r \in RootFields, c \in ChoiceFields}

SecondSections ==
    {[id |-> <<"e">>, settings |-> t \o r] :
        t \in {<<Field(s_text, <<"o", "k">>)>>},
        r \in RootFields}
    \cup {[id |-> <<"e">>, settings |-> <<>>]}

DefaultSection == [id |-> DEFAULTSECT, settings |-> <<>>]

Configs == {<<DefaultSection, a, b>> : a \in FirstSections, b \in SecondSections}

TypedInputs == {<<"Y">>, <<" ", "n">>, <<"0">>, <<"1">>, <<"2">>,
                <<"E", "x", "i", "t">>, <<"z">>}

RequestIds == {None, <<"s">>, <<"e">>, <<"g">>, <<"!">>,
               <<"b", "a", "d", " ", "i", "d", "!">>}

RequestVariables == {EmptyMap, [k \in {<<"v">>} |-> <<"5">>]}

Requests ==
    {[file |-> "ok", node_id |-> id, variables |-> vs] :
        id \in RequestIds, vs \in RequestVariables}
    \cup {[file |-> f, node_id |-> None, variables |-> EmptyMap] :
            f \in {"missing_field", "no_file"}}

----------------------------------------------------------------------------
(* The programs: troubleshooter.py main and the api.py request handler *)

FnIdle ==
    /\ fn_pc = "none" /\ fn_text = <<>> /\ fn_vars = EmptyMap /\ fn_out = None

Init ==
    /\ FnIdle
    /\ prog \in {"cli", "api"}
    /\ config \in Configs
    /\ scenario = Unloaded
    /\ pc = "init"
    /\ node_id = None /\ variables = EmptyMap /\ result = "none" /\ error = "none"
    /\ typed = None /\ choice = None /\ invocation = None
    /\ prev_variables = EmptyMap /\ lookup = NoLookup /\ root_id = None
    /\ request = NoRequest /\ response = NoResponse

Fail(err) ==
    /\ pc' = "failed"
    /\ error' = err

\* main: Scenario(result.scenario)
MainLoad ==
    /\ prog = "cli" /\ pc = "init"
    /\ scenario' = ScenarioInit(config)
    /\ IF scenario'.err # "none"
       THEN Fail(scenario'.err)
       ELSE pc' = "loaded" /\ UNCHANGED error
    /\ UNCHANGED <<fn_state, prog, config, node_id, variables, result, typed, choice,
                   invocation, prev_variables, lookup, root_id, request, response>>

\* get_help up to the loop
GetHelpStart ==
    /\ prog = "cli" /\ pc = "loaded"
    /\ root_id' = get_root_node_id(scenario)
    /\ IF root_id' = None \/ root_id' = <<>>
       THEN Fail("Exception: No root node in scenario") /\ UNCHANGED <<node_id, variables>>
       ELSE /\ pc' = "active"
            /\ node_id' = root_id'
            /\ variables' = EmptyMap
            /\ UNCHANGED error
    /\ UNCHANGED <<fn_state, prog, config, scenario, result, typed, choice, invocation,
                   prev_variables, lookup, request, response>>

\* the loop of get_help from its head to the prompt of ask_choice
Evaluate ==
    /\ prog = "cli" /\ pc = "active"
    /\ lookup' = get_node(scenario, node_id)
    /\ IF lookup'.err # "none" THEN Fail(lookup'.err)
       ELSE IF ~lookup'.found THEN Fail("Exception: Node could not be found")
       ELSE pc' = "asking" /\ UNCHANGED error
    /\ UNCHANGED <<fn_state, prog, config, scenario, node_id, variables, result, typed,
                   choice, invocation, prev_variables, root_id, request, response>>

\* one line read by ask_choice, and the rest of the loop body when it returns
Select(line) ==
    /\ prog = "cli" /\ pc = "asking"
    /\ typed' = line
    /\ LET asked == ask_choice(RunChoices(lookup.node), line)
           next == run(lookup.node, variables, asked.value)
       IN  IF ~asked.returned
           THEN UNCHANGED <<pc, node_id, variables, result, error, choice, invocation,
                            prev_variables>>
           ELSE /\ choice' = asked.value
                /\ IF next.err # "none"
                   THEN /\ Fail(next.err)
                        /\ UNCHANGED <<node_id, variables, result, invocation,
                                       prev_variables>>
                   ELSE IF ~next.next
                   THEN /\ pc' = "terminated"
                        /\ result' = "OK"
                        /\ UNCHANGED <<node_id, variables, error, invocation,
                                       prev_variables>>
                   ELSE /\ pc' = "active"
                        /\ node_id' = next.node_id
                        /\ variables' = NextVariables(variables, next)
                        /\ invocation' = next.invocation
                        /\ prev_variables' = variables
                        /\ UNCHANGED <<result, error>>
    /\ UNCHANGED <<fn_state, prog, config, scenario, lookup, root_id, request, response>>

\* one request handled by get_secnario_node
Request(req) ==
    /\ prog = "api" /\ pc = "init"
    /\ pc' = "answered"
    /\ request' = req
    /\ IF req.file = "missing_field"
       THEN /\ response' = Failure(400, "The field 'scenario_filename' must be present")
            /\ UNCHANGED <<scenario, root_id, lookup>>
       ELSE IF req.file = "no_file"
       THEN /\ response' = Failure(404, "scenario file not found")
            /\ UNCHANGED <<scenario, root_id, lookup>>
       ELSE /\ scenario' = ScenarioInit(config)
            /\ IF scenario'.err # "none"
               THEN /\ response' = Failure(500, scenario'.err)
                    /\ UNCHANGED <<root_id, lookup>>
               ELSE /\ root_id' = IF req.node_id = None
                                  THEN get_root_node_id(scenario') ELSE root_id
                    /\ lookup' = get_node(scenario',
                                          IF req.node_id = None THEN root_id' ELSE req.node_id)
                    /\ response' = HandlerAnswer(lookup', req.variables)
    /\ UNCHANGED <<fn_state, prog, config, node_id, variables, result, error, typed,
                   choice, invocation, prev_variables>>

Next ==
    \/ MainLoad
    \/ GetHelpStart
    \/ Evaluate
    \/ \E line \in TypedInputs : Select(line)
    \/ \E req \in Requests : Request(req)

Spec == Init /\ [][Next]_vars

----------------------------------------------------------------------------
(* The pure functions applied to bounded inputs *)

SubstAlphabet == {"$", "{", "}", ":", "a", "-"}
ParseAlphabet == {" ", "(", ")", ":", "a"}

Texts(alphabet, n) == UNION {[1..m -> alphabet] : m \in 0..n}

SubstVarMaps == {EmptyMap, [k \in {<<"a">>} |-> <<"X">>], [k \in {<<>>} |-> <<"Y">>]}

\* the program variables while only a pure function is exercised
ProgIdle ==
    /\ prog = "none" /\ config = <<>> /\ scenario = Unloaded /\ pc = "none"
    /\ node_id = None /\ variables = EmptyMap /\ result = "none" /\ error = "none"
    /\ typed = None /\ choice = None /\ invocation = None
    /\ prev_variables = EmptyMap /\ lookup = NoLookup /\ root_id = None
    /\ request = NoRequest /\ response = NoResponse

InitSubst ==
    /\ fn_pc = "input"
    /\ fn_text \in Texts(SubstAlphabet, MaxTextLen)
    /\ fn_vars \in SubstVarMaps
    /\ fn_out = None
    /\ ProgIdle

Substitute ==
    /\ fn_pc = "input"
    /\ fn_out' = perform_subsitutions(fn_text, fn_vars)
    /\ fn_pc' = "done"
    /\ UNCHANGED <<fn_text, fn_vars, prog_state>>

SpecSubst == InitSubst /\ [][Substitute]_vars

InitParse ==
    /\ fn_pc = "input"
    /\ fn_text \in Texts(ParseAlphabet, MaxInvocationLen)
    /\ fn_vars = EmptyMap
    /\ fn_out = None
    /\ ProgIdle

Parse ==
    /\ fn_pc = "input"
    /\ fn_out' = parse_node_invocation(fn_text)
    /\ fn_pc' = "done"
    /\ UNCHANGED <<fn_text, fn_vars, prog_state>>

SpecParse == InitParse /\ [][Parse]_vars


----------------------------------------------------------------------------
(* Claims *)

\* the failures, by the line that raises them
InvalidIdentifier == "ValueError: Invalid node id"
NodeNotFound == "Exception: Node could not be found"
NoRootNode == "Exception: No root node in scenario"
MalformedChoice == "ValueError: A choice text cannot be empty"
MalformedInvocation == "ValueError: values to unpack"

\* the example of the specification: template `e (k:${v})`, variables {v: 5}
ExampleTemplate == <<"e", " ", "(", "k", ":", "$", "{", "v", "}", ")">>
ExampleVariables == [k \in {<<"v">>} |-> <<"5">>]
ExampleNextVariables == [k \in {<<"k">>} |-> <<"5">>]

\* C1: a request answered with a node returns one choice record per choice the
\* node declares, in declaration order; each record's text is the substituted
\* label and its next_node_id and next_variables are the parse of the
\* substituted invocation template; the template `e (k:${v})` with {v: 5}
\* gives next_node_id e and next_variables {k: 5}.
C1_HandlerChoices ==
    (prog = "api" /\ pc = "answered" /\ response.status = 200) =>
        LET d == lookup.node.choice_to_node_invocation
            vs == request.variables
        IN  /\ Len(response.choices) = Len(d)
            /\ \A i \in 1..Len(d) :
                LET rec == response.choices[i]
                    parsed == parse_node_invocation(perform_subsitutions(d[i].invocation, vs))
                IN  /\ rec.text = perform_subsitutions(d[i].label, vs)
                    /\ rec.next_node_id = parsed.node_id
                    /\ rec.next_variables = parsed.variables
                    /\ (d[i].invocation = ExampleTemplate /\ vs = ExampleVariables) =>
                           /\ rec.next_node_id = <<"e">>
                           /\ rec.next_variables = ExampleNextVariables

C1_Witness ==
    /\ prog = "api" /\ pc = "answered" /\ response.status = 200
    /\ Len(response.choices) = 2
    /\ request.variables = ExampleVariables
    /\ response.choices[2].next_variables = ExampleNextVariables
    /\ response.choices[1].next_node_id = <<"s">>

\* names bound by the parenthesized groups of an invocation
BoundNames(inv) ==
    LET parts == SplitFirstSpace(Strip(inv))
        groups == IF Len(parts) = 2 THEN Groups(parts[2]) ELSE <<>>
    IN  {SubSeq(groups[i], 1, (CHOOSE c \in Colons(groups[i]) :
                                  \A e \in Colons(groups[i]) : c <= e) - 1) :
            i \in {j \in 1..Len(groups) : Colons(groups[j]) # {}}}

\* C2: in get_help the variables of the Active state are exactly the mapping
\* parsed from the invocation of the choice taken last (empty at the start);
\* a binding of the step before that the invocation does not name is absent.
C2_VariablesFromLastInvocation ==
    (prog = "cli" /\ pc \in {"active", "asking"}) =>
        IF invocation = None THEN variables = EmptyMap
        ELSE /\ variables = parse_node_invocation(invocation).variables
             /\ DOMAIN variables \subseteq BoundNames(invocation)
             /\ \A k \in DOMAIN prev_variables :
                    k \notin BoundNames(invocation) => k \notin DOMAIN variables

C2_Witness ==
    /\ prog = "cli" /\ pc = "active"
    /\ prev_variables = ExampleVariables
    /\ variables = ExampleNextVariables

IsIdentifier(id) == Len(id) >= 1 /\ \A i \in 1..Len(id) : IsWord(id[i])

\* C3: get_node fails with InvalidIdentifier for every node id that is not
\* entirely word characters, and returns absent without an error for every
\* well-formed id that names no node.
C3_InvalidIdentifierRaised ==
    (lookup.err # "nocall" /\ lookup.arg # None) =>
        IF IsIdentifier(lookup.arg)
        THEN /\ lookup.err = "none"
             /\ lookup.found =
                  (\E i \in 1..Len(scenario.nodes) : scenario.nodes[i].node_id = lookup.arg)
        ELSE lookup.err = InvalidIdentifier

\* C4: a session started without a node id on a scenario with no root is
\* reported as NoRootNode, by get_help and by the handler, and no node is
\* evaluated.
C4_NoRootReported ==
    (scenario.err = "none" /\ get_root_node_id(scenario) = None) =>
        /\ (prog = "cli" /\ pc \notin {"init", "loaded"}) =>
               pc = "failed" /\ error = NoRootNode /\ ~lookup.found
        /\ (prog = "api" /\ pc = "answered" /\ request.file = "ok"
              /\ request.node_id = None) =>
               response.err = NoRootNode /\ ~lookup.found

FirstColon(group) == CHOOSE c \in Colons(group) : \A e \in Colons(group) : c <= e

\* C5: every group that contains a colon is split on its first colon only:
\* the key is the text before it, the value everything after it, and parsing
\* raises nothing.
C5_FirstColonSplit ==
    fn_pc = "done" =>
        LET parts == SplitFirstSpace(Strip(fn_text))
            groups == IF Len(parts) = 2 THEN Groups(parts[2]) ELSE <<>>
        IN  (\A i \in 1..Len(groups) : Colons(groups[i]) # {}) =>
                /\ fn_out.err = "none"
                /\ \A i \in 1..Len(groups) :
                       LET key == SubSeq(groups[i], 1, FirstColon(groups[i]) - 1)
                           later == {j \in i..Len(groups) :
                                       SubSeq(groups[j], 1, FirstColon(groups[j]) - 1) = key}
                           last == CHOOSE j \in later : \A e \in later : e <= j
                       IN  /\ key \in DOMAIN fn_out.variables
                           /\ fn_out.variables[key] =
                                SubSeq(groups[last], FirstColon(groups[last]) + 1,
                                       Len(groups[last]))

\* the id of the first section that declares root = true, None without one
DeclaredRoot(cfg) ==
    LET marked == {i \in 1..Len(cfg) :
                     /\ cfg[i].id # DEFAULTSECT
                     /\ HasSetting(cfg[i].settings, s_root)
                     /\ GetSetting(cfg[i].settings, s_root) = s_true}
    IN  IF marked = {} THEN None
        ELSE cfg[CHOOSE i \in marked : \A j \in marked : i <= j].id

\* C6: get_root_node_id returns the first node in declaration order whose root
\* flag is true and absent when none is, for scenarios whose nodes omit root or
\* declare it true or false.
C6_FirstDeclaredRoot ==
    scenario.err = "none" => get_root_node_id(scenario) = DeclaredRoot(config)

\* C7: loading a declaration with a field named exactly if_ fails with
\* MalformedChoice (here: when every section has its text, so that nothing
\* else fails the load).
C7_EmptyLabelRejected ==
    (/\ scenario.err # "unloaded"
     /\ \A i \in 1..Len(config) :
            config[i].id # DEFAULTSECT => HasSetting(config[i].settings, s_text)
     /\ \E i \in 1..Len(config) : HasSetting(config[i].settings, <<"i", "f", "_">>)) =>
        scenario.err = MalformedChoice

\* a placeholder of the grammar ${name} or ${name:default} starting at i
GrammarPlaceholder(text, i) ==
    IF ~(i + 1 <= Len(text) /\ text[i] = "$" /\ text[i + 1] = "{")
    THEN [matched |-> FALSE]
    ELSE LET nameEnd == WordRunEnd(text, i + 2)
             after == nameEnd + 1
             closes == {j \in after..Len(text) : text[j] = "}"}
         IN  IF after > Len(text) \/ text[after] \notin {":", "}"} \/ closes = {}
             THEN [matched |-> FALSE]
             ELSE LET close == CHOOSE j \in closes : \A q \in closes : j <= q
                  IN  [matched |-> TRUE,
                       name |-> SubSeq(text, i + 2, nameEnd),
                       default |-> SubSeq(text, after + 1, close - 1),
                       end |-> close]

RECURSIVE GrammarSubstitute(_, _, _)
GrammarSubstitute(text, vs, i) ==
    IF i > Len(text) THEN <<>>
    ELSE LET m == GrammarPlaceholder(text, i)
         IN  IF m.matched
             THEN (IF m.name \in DOMAIN vs THEN vs[m.name] ELSE m.default)
                    \o GrammarSubstitute(text, vs, m.end + 1)
             ELSE <<text[i]>> \o GrammarSubstitute(text, vs, i + 1)

\* C8: substitution replaces only the placeholders of the grammar; every other
\* part of the text, a ${...} group outside the grammar included, is unchanged.
C8_OnlyGrammarReplaced ==
    fn_pc = "done" => fn_out = GrammarSubstitute(fn_text, fn_vars, 1)

\* C9 as stated: the session leaves Active only to Terminated with OK on exit
\* or no selection, or by a reported missing node or invalid identifier, and
\* Terminated is final.
C9_OnlyExitOrLookupFailure ==
    [][/\ (prog = "cli" /\ pc \in {"active", "asking"}) =>
            \/ pc' \in {"active", "asking"}
            \/ pc' = "terminated" /\ result' = "OK" /\ choice' \in {s_exit, None}
            \/ pc' = "failed" /\ error' \in {NodeNotFound, InvalidIdentifier}
       /\ (prog = "cli" /\ pc = "terminated") => FALSE]_vars

\* C9 as amended: a selected choice whose invocation does not parse is a third
\* reported failure that ends the session.
C9_ExitOrReportedFailure ==
    [][/\ (prog = "cli" /\ pc \in {"active", "asking"}) =>
            \/ pc' \in {"active", "asking"}
            \/ pc' = "terminated" /\ result' = "OK" /\ choice' \in {s_exit, None}
            \/ pc' = "failed"
                 /\ error' \in {NodeNotFound, InvalidIdentifier, MalformedInvocation}
       /\ (prog = "cli" /\ pc = "terminated") => FALSE]_vars

C9_Witness ==
    /\ prog = "cli" /\ pc = "terminated" /\ result = "OK"
    /\ choice = s_exit /\ invocation # None

\* C10: typing the label of a declared choice in any letter case, or its
\* index, moves the session to Active(next_node_id, next_variables) of that
\* choice.
C10_TypedChoiceTaken ==
    [][(prog = "cli" /\ pc = "asking") =>
          \A i \in 1..Len(lookup.node.choice_to_node_invocation) :
             LET entry == lookup.node.choice_to_node_invocation[i]
                 expected == parse_node_invocation(
                                 perform_subsitutions(entry.invocation, variables))
             IN  (/\ expected.err = "none"
                  /\ \/ Lower(typed') = Lower(entry.label)
                     \/ IsInt(typed') /\ IntOf(typed') = i - 1) =>
                     /\ pc' = "active"
                     /\ node_id' = expected.node_id
                     /\ variables' = expected.variables]_vars

====
